---- MODULE Spec2Model ----
(***************************************************************************)
(* A model of the zellij pomodoro plugin (src/src/main.rs): the phase      *)
(* machine Status, the session Pomo, and the event handler State::update   *)
(* with the stored record at STATE_SAVING_PATH and the host's timeouts.    *)
(* Durations are whole seconds.                                            *)
(***************************************************************************)
EXTENDS Integers, Sequences, FiniteSets, TLC

\* ---------------------------------------------------------------- constants
WORKING_INTERVAL == 1500

BREAKING_INTERVAL == 300

NAPPING_INTERVAL == 900

\* The round at which a rest is followed by a nap: `if i + 1 == 4`.
ROUNDS == 4

\* ------------------------------------------------------------------- bounds
\* The elapsed times a Timer event may carry lie on a grid of
\* BREAKING_INTERVAL / Granularity seconds.
Granularity == 1

\* The largest elapsed time is MaxElapsedSteps grid steps.
MaxElapsedSteps == 7

\* At most MaxPending timeouts requested from the host are outstanding.
MaxPending == 2

TickUnit == BREAKING_INTERVAL \div Granularity

ElapsedSet == {k * TickUnit : k \in 0..MaxElapsedSteps}

\* -------------------------------------------------------------------- types
\* enum Status { Working(usize, Duration), Resting(usize, Duration), Napping(Duration) }
Working(i, d) == [tag |-> "Working", round |-> i, remain |-> d]

Resting(i, d) == [tag |-> "Resting", round |-> i, remain |-> d]

Napping(d) == [tag |-> "Napping", remain |-> d]

\* Mutant of StatusDefault: the first round written as it is displayed, 1.
StatusDefaultOneBased == Working(1, WORKING_INTERVAL)

\* impl Default for Status
StatusDefault == Working(0, WORKING_INTERVAL)

\* #[derive(Default)] struct Pomo { paused: bool, status: Status }, Pomo::new
PomoNew == [paused |-> FALSE, status |-> StatusDefault]

\* Option<T>: None is <<>>, Some(x) is <<x>>.
None == <<>>

Some(x) == <<x>>

\* Mutant of CheckedSub: saturating_sub in its place, which is never None.
CheckedSubSaturating(a, b) == IF b <= a THEN Some(a - b) ELSE Some(0)

\* Duration::checked_sub: None exactly when the subtrahend is the larger.
CheckedSub(a, b) == IF b <= a THEN Some(a - b) ELSE None

\* exec_cmd(&vec!["notify-send", title, body])
Notify(title, body) == [title |-> title, body |-> body]

\* Mutant of Exhausted: the nap test written `i == 4`.
ExhaustedOffByOne(s) ==
    CASE s.tag = "Working" ->
           [status |-> Resting(s.round, BREAKING_INTERVAL),
            notes  |-> <<Notify("pomodoro", "Time to take a break")>>]
      [] s.tag = "Resting" ->
           IF s.round = ROUNDS
           THEN [status |-> Napping(NAPPING_INTERVAL),
                 notes  |-> <<Notify("pomodoro", "Time to take some nap")>>]
           ELSE [status |-> Working(s.round + 1, WORKING_INTERVAL),
                 notes  |-> <<Notify("pomodoro", "Time to start working")>>]
      [] s.tag = "Napping" ->
           [status |-> Working(0, WORKING_INTERVAL),
            notes  |-> <<Notify("pomodoro", "Time to start working")>>]

\* Mutant of Exhausted: the end of a rest always announces work, also when
\* a nap follows.
ExhaustedSameNotice(s) ==
    CASE s.tag = "Working" ->
           [status |-> Resting(s.round, BREAKING_INTERVAL),
            notes  |-> <<Notify("pomodoro", "Time to take a break")>>]
      [] s.tag = "Resting" ->
           [status |-> IF s.round + 1 = ROUNDS
                       THEN Napping(NAPPING_INTERVAL)
                       ELSE Working(s.round + 1, WORKING_INTERVAL),
            notes  |-> <<Notify("pomodoro", "Time to start working")>>]
      [] s.tag = "Napping" ->
           [status |-> Working(0, WORKING_INTERVAL),
            notes  |-> <<Notify("pomodoro", "Time to start working")>>]

\* Mutant of Exhausted: the nap branch is missing, a rest is always followed
\* by the next round of work.
ExhaustedNoNap(s) ==
    CASE s.tag = "Working" ->
           [status |-> Resting(s.round, BREAKING_INTERVAL),
            notes  |-> <<Notify("pomodoro", "Time to take a break")>>]
      [] s.tag = "Resting" ->
           [status |-> Working(s.round + 1, WORKING_INTERVAL),
            notes  |-> <<Notify("pomodoro", "Time to start working")>>]
      [] s.tag = "Napping" ->
           [status |-> Working(0, WORKING_INTERVAL),
            notes  |-> <<Notify("pomodoro", "Time to start working")>>]

\* Mutant of Exhausted: the intervals of the rest and of the nap are swapped.
ExhaustedSwappedIntervals(s) ==
    CASE s.tag = "Working" ->
           [status |-> Resting(s.round, NAPPING_INTERVAL),
            notes  |-> <<Notify("pomodoro", "Time to take a break")>>]
      [] s.tag = "Resting" ->
           IF s.round + 1 = ROUNDS
           THEN [status |-> Napping(BREAKING_INTERVAL),
                 notes  |-> <<Notify("pomodoro", "Time to take some nap")>>]
           ELSE [status |-> Working(s.round + 1, WORKING_INTERVAL),
                 notes  |-> <<Notify("pomodoro", "Time to start working")>>]
      [] s.tag = "Napping" ->
           [status |-> Working(0, WORKING_INTERVAL),
            notes  |-> <<Notify("pomodoro", "Time to start working")>>]

\* ------------------------------------------------------------ Status::elapsed
\* The successor of an exhausted phase and the notification sent on leaving it.
Exhausted(s) ==
    CASE s.tag = "Working" ->
           [status |-> Resting(s.round, BREAKING_INTERVAL),
            notes  |-> <<Notify("pomodoro", "Time to take a break")>>]
      [] s.tag = "Resting" ->
           IF s.round + 1 = ROUNDS
           THEN [status |-> Napping(NAPPING_INTERVAL),
                 notes  |-> <<Notify("pomodoro", "Time to take some nap")>>]
           ELSE [status |-> Working(s.round + 1, WORKING_INTERVAL),
                 notes  |-> <<Notify("pomodoro", "Time to start working")>>]
      [] s.tag = "Napping" ->
           [status |-> Working(0, WORKING_INTERVAL),
            notes  |-> <<Notify("pomodoro", "Time to start working")>>]

\* Mutant of StatusElapsed: the Napping arm rebuilds the status as
\* Working(0, remain) when time remains.
StatusElapsedWrongArm(s, d) ==
    LET r == CheckedSub(s.remain, d) IN
    IF r # None
    THEN [status |-> IF s.tag = "Napping" THEN Working(0, r[1])
                     ELSE [s EXCEPT !.remain = r[1]],
          notes  |-> <<>>]
    ELSE Exhausted(s)

\* Mutant of StatusElapsed: the time in excess of the remaining time is taken
\* off the next phase.
StatusElapsedCarry(s, d) ==
    LET r == CheckedSub(s.remain, d) IN
    IF r # None
    THEN [status |-> [s EXCEPT !.remain = r[1]], notes |-> <<>>]
    ELSE LET e == Exhausted(s)
             x == d - s.remain
         IN  [status |-> [e.status EXCEPT
                            !.remain = IF x <= @ THEN @ - x ELSE 0],
              notes  |-> e.notes]

\* Status::elapsed(self, d): the new status and the notifications it sends.
StatusElapsed(s, d) ==
    LET r == CheckedSub(s.remain, d) IN
    IF r # None
    THEN [status |-> [s EXCEPT !.remain = r[1]], notes |-> <<>>]
    ELSE Exhausted(s)

\* Mutant of PomoElapsed: the early return on paused is missing.
PomoElapsedNoPause(p, d) ==
    LET e == StatusElapsed(p.status, d) IN
    [pomo |-> [p EXCEPT !.status = e.status], notes |-> e.notes]

\* Pomo::elapsed(&mut self, dur)
PomoElapsed(p, d) ==
    IF p.paused
    THEN [pomo |-> p, notes |-> <<>>]
    ELSE LET e == StatusElapsed(p.status, d) IN
         [pomo |-> [p EXCEPT !.status = e.status], notes |-> e.notes]

\* Mutant of TogglePause: `self.paused |= true`.
TogglePauseSet(p) == [p EXCEPT !.paused = TRUE]

\* Pomo::toggle_pause(&mut self): self.paused ^= true
TogglePause(p) == [p EXCEPT !.paused = (p.paused # TRUE)]

\* ------------------------------------------------------------- persistence
\* serde's encoding of Duration: {"secs": .., "nanos": ..}
DurationToJson(d) == [secs |-> d, nanos |-> 0]

\* serde's externally tagged encoding of Status: {"Working": [i, d]},
\* {"Resting": [i, d]}, {"Napping": d}
StatusToJson(s) ==
    CASE s.tag = "Working" -> [Working |-> <<s.round, DurationToJson(s.remain)>>]
      [] s.tag = "Resting" -> [Resting |-> <<s.round, DurationToJson(s.remain)>>]
      [] s.tag = "Napping" -> [Napping |-> DurationToJson(s.remain)]

\* serde_json::to_vec(&self.pomo)
PomoToJson(p) == [paused |-> p.paused, status |-> StatusToJson(p.status)]

\* Mutant of DurationFromJson: the seconds are read from the nanos field.
DurationFromJsonNanos(j) ==
    IF DOMAIN j = {"secs", "nanos"} THEN Some(j.nanos) ELSE None

\* serde's decoding of Duration
DurationFromJson(j) ==
    IF DOMAIN j = {"secs", "nanos"} THEN Some(j.secs) ELSE None

StatusFromJson(j) ==
    CASE DOMAIN j = {"Working"} ->
           LET d == DurationFromJson(j.Working[2]) IN
           IF d = None THEN None ELSE Some(Working(j.Working[1], d[1]))
      [] DOMAIN j = {"Resting"} ->
           LET d == DurationFromJson(j.Resting[2]) IN
           IF d = None THEN None ELSE Some(Resting(j.Resting[1], d[1]))
      [] DOMAIN j = {"Napping"} ->
           LET d == DurationFromJson(j.Napping) IN
           IF d = None THEN None ELSE Some(Napping(d[1]))
      [] OTHER -> None

\* serde_json::from_reader(f): Err is None
PomoFromJson(j) ==
    IF DOMAIN j = {"paused", "status"}
    THEN LET s == StatusFromJson(j.status) IN
         IF s = None THEN None
         ELSE Some([paused |-> j.paused, status |-> s[1]])
    ELSE None

\* The record at STATE_SAVING_PATH: <<>> when the file is missing, else
\* <<content>>.
Missing == <<>>

\* Content that is no encoding of a Pomo.
Malformed == <<[garbage |-> TRUE]>>

\* fs::File::open(..).and_then(from_reader): Ok(pomo) => pomo, Err(_) => Pomo::new()
LoadPomo(f) ==
    IF f = Missing THEN PomoNew
    ELSE LET r == PomoFromJson(f[1]) IN
         IF r = None THEN PomoNew ELSE r[1]

\* fs::write(STATE_SAVING_PATH, to_vec(&self.pomo))
SavePomo(p) == <<PomoToJson(p)>>

\* Mutant of SetTimeout: the call is missing.
SetTimeoutMissing(n) == n

\* set_timeout(1.0): one more timeout is outstanding at the host.
SetTimeout(n) == n + 1

\* ------------------------------------------------------------------- state
VARIABLES active, pomo, file, pending, notified, last, saved, changed, screen

vars == <<active, pomo, file, pending, notified, last, saved, changed, screen>>

\* active, pomo: struct State.  file: the stored record.  pending: the
\* timeouts requested by set_timeout that have not fired yet.  notified: the
\* notifications sent while handling the last event.  last: the last event
\* handled and the elapsed time it carried.  saved: the session as it was
\* when the plugin last became hidden (None before that).  changed: whether
\* the last event handled left a session other than the one it found.
\* screen: the lines last printed by render.
Event(ev, t) == [ev |-> ev, t |-> t]

Init ==
    /\ active = FALSE
    /\ pomo = PomoNew
    /\ file \in {Missing, Malformed}
    /\ pending = 0
    /\ notified = <<>>
    /\ last = Event("load", 0)
    /\ saved = None
    /\ changed = FALSE
    /\ screen = <<>>

\* Mutant of KeyReset: the fresh session is written to the record at once.
KeyResetSaves ==
    /\ pomo' = PomoNew
    /\ file' = SavePomo(PomoNew)
    /\ notified' = <<>>
    /\ last' = Event("KeyR", 0)
    /\ changed' = (pomo' # pomo)
    /\ UNCHANGED <<active, pending, saved, screen>>

\* Event::KeyPress(Key::Char('r')) => self.pomo = Pomo::new()
KeyReset ==
    /\ pomo' = PomoNew
    /\ notified' = <<>>
    /\ last' = Event("KeyR", 0)
    /\ changed' = (pomo' # pomo)
    /\ UNCHANGED <<active, file, pending, saved, screen>>

\* Event::KeyPress(Key::Char(' ')) => self.pomo.toggle_pause()
KeySpace ==
    /\ pomo' = TogglePause(pomo)
    /\ notified' = <<>>
    /\ last' = Event("KeySpace", 0)
    /\ changed' = (pomo' # pomo)
    /\ UNCHANGED <<active, file, pending, saved, screen>>

\* Mutant of Timer: the test of self.active is missing.
TimerUngated(t) ==
    /\ pending > 0
    /\ LET r == PomoElapsed(pomo, t) IN
       /\ pomo' = r.pomo
       /\ notified' = r.notes
       /\ pending' = SetTimeout(pending - 1)
    /\ last' = Event("Timer", t)
    /\ changed' = (pomo' # pomo)
    /\ UNCHANGED <<active, file, saved, screen>>

\* Mutant of Timer: the next timeout is requested only when the session is
\* not paused.
TimerRearmUnpaused(t) ==
    /\ pending > 0
    /\ IF active
       THEN LET r == PomoElapsed(pomo, t) IN
            /\ pomo' = r.pomo
            /\ notified' = r.notes
            /\ pending' = IF pomo.paused THEN pending - 1
                          ELSE SetTimeout(pending - 1)
       ELSE /\ pomo' = pomo
            /\ notified' = <<>>
            /\ pending' = pending - 1
    /\ last' = Event("Timer", t)
    /\ changed' = (pomo' # pomo)
    /\ UNCHANGED <<active, file, saved, screen>>

\* Event::Timer(t): one outstanding timeout fires.
Timer(t) ==
    /\ pending > 0
    /\ IF active
       THEN LET r == PomoElapsed(pomo, t) IN
            /\ pomo' = r.pomo
            /\ notified' = r.notes
            /\ pending' = SetTimeout(pending - 1)
       ELSE /\ pomo' = pomo
            /\ notified' = <<>>
            /\ pending' = pending - 1
    /\ last' = Event("Timer", t)
    /\ changed' = (pomo' # pomo)
    /\ UNCHANGED <<active, file, saved, screen>>

\* Event::Visible(true)
VisibleTrue ==
    /\ pending < MaxPending
    /\ active' = TRUE
    /\ pending' = SetTimeout(pending)
    /\ pomo' = LoadPomo(file)
    /\ notified' = <<>>
    /\ last' = Event("VisibleTrue", 0)
    /\ changed' = (pomo' # pomo)
    /\ UNCHANGED <<file, saved, screen>>

\* Event::Visible(false)
VisibleFalse ==
    /\ active' = FALSE
    /\ file' = SavePomo(pomo)
    /\ saved' = Some(pomo)
    /\ notified' = <<>>
    /\ last' = Event("VisibleFalse", 0)
    /\ changed' = FALSE
    /\ UNCHANGED <<pomo, pending, screen>>

\* _ => ()
OtherEvent ==
    /\ notified' = <<>>
    /\ last' = Event("Other", 0)
    /\ changed' = FALSE
    /\ UNCHANGED <<active, pomo, file, pending, saved, screen>>

Next ==
    \/ KeyReset
    \/ KeySpace
    \/ \E t \in ElapsedSet : Timer(t)
    \/ VisibleTrue
    \/ VisibleFalse
    \/ OtherEvent

Spec == Init /\ [][Next]_vars

\* The seconds of set_timeout(1.0), which a Timer event delivered on time
\* carries as its elapsed time.
TIMEOUT == 1

\* The plugin right after it became visible with no record: active, the
\* default session, one timeout requested.
InitTick ==
    /\ active = TRUE
    /\ pomo = PomoNew
    /\ file = Missing
    /\ pending = 1
    /\ notified = <<>>
    /\ last = Event("VisibleTrue", 0)
    /\ saved = None
    /\ changed = FALSE
    /\ screen = <<>>

\* The timeout fires after one second.
Tick == Timer(TIMEOUT)

NextTick == Tick

\* The plugin stays visible and unpaused and the host delivers every timeout
\* it was asked for.
SpecTick == InitTick /\ [][NextTick]_vars /\ WF_vars(Tick)

\* ------------------------------------------------------------------ render
\* The rows a pane may have.
MaxRows == 2

\* {:02}: decimal, padded with zeros to a width of at least 2.
Pad2(n) == IF n < 10 THEN "0" \o ToString(n) ELSE ToString(n)

\* Mutant of StatusDisplay: the round is printed as it is stored.
StatusDisplayZeroBased(s) ==
    CASE s.tag = "Working" ->
           "Working(round " \o ToString(s.round) \o "): remaining "
             \o Pad2(s.remain \div 60) \o ":" \o Pad2(s.remain % 60)
      [] s.tag = "Resting" ->
           "Resting(round " \o ToString(s.round) \o "): remaining "
             \o Pad2(s.remain \div 60) \o ":" \o Pad2(s.remain % 60)
      [] s.tag = "Napping" ->
           "Napping: remaining "
             \o Pad2(s.remain \div 60) \o ":" \o Pad2(s.remain % 60)

\* impl fmt::Display for Status
StatusDisplay(s) ==
    CASE s.tag = "Working" ->
           "Working(round " \o ToString(s.round + 1) \o "): remaining "
             \o Pad2(s.remain \div 60) \o ":" \o Pad2(s.remain % 60)
      [] s.tag = "Resting" ->
           "Resting(round " \o ToString(s.round + 1) \o "): remaining "
             \o Pad2(s.remain \div 60) \o ":" \o Pad2(s.remain % 60)
      [] s.tag = "Napping" ->
           "Napping: remaining "
             \o Pad2(s.remain \div 60) \o ":" \o Pad2(s.remain % 60)

\* impl fmt::Display for Pomo
PomoDisplay(p) == StatusDisplay(p.status) \o (IF p.paused THEN " [paused]" ELSE "")

\* Pomo::shortcuts
Shortcuts(p) ==
    "Tip: <space> => " \o (IF p.paused THEN "resume" ELSE "pause")
      \o ", <r> => reset"

\* State::render(rows, _cols): the status (the clock printed after it on the
\* same line is left out) and, with more than one row, the shortcuts.
Render(rows) ==
    /\ screen' = IF rows > 1
                 THEN <<PomoDisplay(pomo), Shortcuts(pomo)>>
                 ELSE <<PomoDisplay(pomo)>>
    /\ UNCHANGED <<active, pomo, file, pending, notified, last, saved, changed>>

\* The statuses of the cycle with every remaining time of whole seconds.
StatusSet ==
    {Working(i, d) : i \in 0..(ROUNDS - 1), d \in 0..WORKING_INTERVAL}
      \cup {Resting(i, d) : i \in 0..(ROUNDS - 1), d \in 0..BREAKING_INTERVAL}
      \cup {Napping(d) : d \in 0..NAPPING_INTERVAL}

\* A visible plugin holding any session, nothing printed yet.
InitFmt ==
    /\ active = TRUE
    /\ pomo \in [paused : BOOLEAN, status : StatusSet]
    /\ file = Missing
    /\ pending = 1
    /\ notified = <<>>
    /\ last = Event("VisibleTrue", 0)
    /\ saved = None
    /\ changed = FALSE
    /\ screen = <<>>

NextFmt == \E rows \in 1..MaxRows : Render(rows)

SpecFmt == InitFmt /\ [][NextFmt]_vars

\* ------------------------------------------------------------ the claims
\* The phase of a status: its variant and, for Working and Resting, its round.
Phase(s) == IF s.tag = "Napping" THEN <<"Napping">> ELSE <<s.tag, s.round>>

\* The cycle of phases as the specification lists it.
Cycle ==
    << <<"Working", 0>>, <<"Resting", 0>>, <<"Working", 1>>, <<"Resting", 1>>,
       <<"Working", 2>>, <<"Resting", 2>>, <<"Working", 3>>, <<"Resting", 3>>,
       <<"Napping">> >>

\* The phase after ph in the cycle (the last is followed by the first).
CycleNext(ph) ==
    LET k == CHOOSE n \in 1..Len(Cycle) : Cycle[n] = ph IN
    Cycle[(k % Len(Cycle)) + 1]

\* The fixed interval of a phase variant, in seconds.
FullInterval(tag) ==
    CASE tag = "Working" -> 1500
      [] tag = "Resting" -> 300
      [] tag = "Napping" -> 900

\* The step is the handling of a Timer event; last'.t is the elapsed time it
\* carries.
TimerStep == last'.ev = "Timer" /\ Timer(last'.t)

\* The step is a Timer event that reaches Pomo::elapsed with the session
\* unpaused: an unpaused advance by last'.t.
AdvanceStep == TimerStep /\ active /\ ~pomo.paused

\* C1: one unpaused advance with elapsed = remaining moves to the next phase
\* of the cycle with its full interval, exactly as elapsed > remaining does.
C1_ExactInclusive ==
    [][(AdvanceStep /\ last'.t = pomo.status.remain)
         => /\ Phase(pomo'.status) = CycleNext(Phase(pomo.status))
            /\ pomo'.status.remain = FullInterval(pomo'.status.tag)]_vars

\* C2: with remaining > elapsed, one unpaused advance keeps the variant and
\* the round, sets remaining to remaining - elapsed and sends no notification.
C2_Subtract ==
    [][(AdvanceStep /\ pomo.status.remain > last'.t)
         => /\ pomo'.status.tag = pomo.status.tag
            /\ Phase(pomo'.status) = Phase(pomo.status)
            /\ pomo'.status.remain = pomo.status.remain - last'.t
            /\ pomo'.paused = pomo.paused
            /\ notified' = <<>>]_vars

\* C2 witness: an unpaused advance by a positive time has just left a
\* positive remaining time and sent nothing, so remaining exceeded elapsed.
C2_Witness ==
    /\ last.ev = "Timer" /\ last.t > 0
    /\ active /\ ~pomo.paused
    /\ notified = <<>>
    /\ pomo.status.tag = "Napping"
    /\ pomo.status.remain > 0

\* C3: every phase change made by an advance is the next step of the cycle
\* Working(0), Resting(0), ..., Working(3), Resting(3), Napping, Working(0).
C3_CycleOrder ==
    [][(TimerStep /\ Phase(pomo'.status) # Phase(pomo.status))
         => Phase(pomo'.status) = CycleNext(Phase(pomo.status))]_vars

\* C3 witness: an advance has just closed the cycle, entering Working(0)
\* with the notification that only a phase change sends.
C3_Witness ==
    /\ last.ev = "Timer"
    /\ notified # <<>>
    /\ Phase(pomo.status) = <<"Working", 0>>

\* C4: while the session is paused a Timer event of any elapsed time leaves
\* the variant, round, remaining time and pause flag unchanged and sends no
\* notification.
C4_PausedInert ==
    [][(TimerStep /\ pomo.paused) => (pomo' = pomo /\ notified' = <<>>)]_vars

\* C4 witness: a Timer event with a positive elapsed time was handled while
\* the plugin was visible and the session paused in the middle of a phase.
C4_Witness ==
    /\ last.ev = "Timer" /\ last.t > 0
    /\ active /\ pomo.paused
    /\ pomo.status.remain > 0
    /\ pomo.status.remain < FullInterval(pomo.status.tag)

\* C5: the space key flips the paused flag and leaves the phase and all other
\* state unchanged, and a second toggle right after it restores the session.
C5_TogglePause ==
    [][KeySpace
         => /\ pomo'.paused = ~pomo.paused
            /\ pomo'.status = pomo.status
            /\ TogglePause(pomo') = pomo
            /\ UNCHANGED <<active, file, pending>>]_vars

\* C5 witness: the space key was handled in the middle of a rest and left
\* the session paused.
C5_Witness ==
    /\ last.ev = "KeySpace"
    /\ pomo.paused
    /\ pomo.status.tag = "Resting"
    /\ pomo.status.remain < FullInterval("Resting")

\* C6: an unpaused advance with elapsed > remaining, however large, lands on
\* the immediate successor phase with its full fixed interval: the excess is
\* dropped and no second boundary is crossed.
C6_OneBoundary ==
    [][(AdvanceStep /\ last'.t > pomo.status.remain)
         => /\ Phase(pomo'.status) = CycleNext(Phase(pomo.status))
            /\ pomo'.status.remain = FullInterval(pomo'.status.tag)]_vars

\* C6 witness: an advance by more than a whole Working interval plus a whole
\* Resting interval has just ended a Working phase, and the session is at the
\* start of the rest.
C6_Witness ==
    /\ last.ev = "Timer"
    /\ last.t > FullInterval("Working") + FullInterval("Resting")
    /\ active /\ ~pomo.paused
    /\ notified # <<>>
    /\ pomo.status.tag = "Resting"
    /\ pomo.status.remain = FullInterval("Resting")

\* The body announced when an advance leaves variant from for variant to.
ExpectedBody(from, to) ==
    CASE from = "Working" -> "Time to take a break"
      [] from = "Resting" /\ to = "Napping" -> "Time to take some nap"
      [] from = "Resting" /\ to = "Working" -> "Time to start working"
      [] from = "Napping" /\ to = "Working" -> "Time to start working"
      [] OTHER -> "none"

\* C7: a Timer event that changes the phase variant sends exactly one
\* notification, titled "pomodoro" with the body of the variant change, and
\* a Timer event that does not change the variant sends none.
C7_Notifications ==
    [][TimerStep
         => IF pomo'.status.tag # pomo.status.tag
            THEN notified' = << [title |-> "pomodoro",
                                 body  |-> ExpectedBody(pomo.status.tag,
                                                        pomo'.status.tag)] >>
            ELSE notified' = <<>>]_vars

\* C7 witness: an advance has just left Resting(3) for Napping and sent the
\* nap notification.
C7_Witness ==
    /\ last.ev = "Timer"
    /\ pomo.status.tag = "Napping"
    /\ notified = << [title |-> "pomodoro", body |-> "Time to take some nap"] >>

\* The default session: not paused, Working(round 0, 1500 s).
DefaultSession ==
    [paused |-> FALSE,
     status |-> [tag |-> "Working", round |-> 0, remain |-> 1500]]

\* C8: after the reset key, and in a freshly started plugin, the session is
\* the default session.
C8_Reset == last.ev \in {"KeyR", "load"} => pomo = DefaultSession

\* C8 witness: the reset key was handled while the plugin was hidden, after
\* a paused nap had been saved.
C8_Witness ==
    /\ last.ev = "KeyR"
    /\ ~active
    /\ saved # None
    /\ saved[1].paused
    /\ saved[1].status.tag = "Napping"

\* C9: after becoming visible with a record written at the last become-hidden,
\* the session is the session as it was at that become-hidden.
C9_RoundTrip ==
    (last.ev = "VisibleTrue" /\ saved # None)
      => /\ PomoFromJson(file[1]) # None
         /\ pomo = saved[1]

\* C9 witness: a paused session in the middle of a nap has been saved and
\* loaded again.
C9_Witness ==
    /\ last.ev = "VisibleTrue"
    /\ saved # None
    /\ pomo.paused
    /\ pomo.status.tag = "Napping"
    /\ pomo.status.remain < FullInterval("Napping")

\* C10: after becoming visible with a missing or malformed record, the
\* session is the default session and the plugin is active with a timeout
\* pending.
C10_LoadFallback ==
    (last.ev = "VisibleTrue" /\ file \in {Missing, Malformed})
      => /\ pomo = DefaultSession
         /\ active
         /\ pending > 0

\* C10 witness: the plugin became visible again with malformed content in
\* the record, a second timeout being requested.
C10_Witness ==
    /\ last.ev = "VisibleTrue"
    /\ file = Malformed
    /\ pending = 2

\* C11: a Timer event handled while the plugin is hidden leaves the session
\* unchanged, sends nothing and requests no timeout: the timeout that fired
\* is not replaced.
C11_HiddenTimer ==
    [][(TimerStep /\ ~active)
         => /\ pomo' = pomo
            /\ notified' = <<>>
            /\ pending' = pending - 1
            /\ active' = active]_vars

\* C11 witness: a Timer event with a positive elapsed time was handled while
\* hidden, with the session unpaused, and no timeout is outstanding after it.
C11_Witness ==
    /\ last.ev = "Timer" /\ last.t > 0
    /\ ~active
    /\ ~pomo.paused
    /\ pending = 0

\* The statuses that carry a round.
HasRound(s) == s.tag \in {"Working", "Resting"}

\* C14: in every reachable state the round of a Working or Resting phase is
\* in 0..3.
C14_RoundRange == HasRound(pomo.status) => pomo.status.round \in 0..3

\* C14 witness: the last round has been reached and its rest loaded back from
\* the record.
C14_Witness ==
    /\ last.ev = "VisibleTrue"
    /\ saved # None
    /\ Phase(pomo.status) = <<"Resting", 3>>

\* The round decreases in the step.
RoundDecreases ==
    /\ HasRound(pomo.status)
    /\ HasRound(pomo'.status)
    /\ pomo'.status.round < pomo.status.round

\* C15: a step in which the round decreases is a Napping exhaustion or a
\* reset key press.
C15_RoundResetOnlyByNapOrReset ==
    [][RoundDecreases
         => \/ last'.ev = "KeyR"
            \/ (TimerStep /\ pomo.status.tag = "Napping")]_vars

\* C16: while the plugin is visible a timeout is pending.
C16_TimeoutPendingWhileVisible == active => pending > 0

\* C16 witness: a Timer event was handled while visible and paused, and a
\* timeout is pending after it.
C16_Witness ==
    /\ last.ev = "Timer"
    /\ active
    /\ pomo.paused
    /\ pending = 1

\* C17: at most one timeout request is outstanding at any time.
C17_SingleTimeout == pending <= 1

\* C18: the remaining time is never negative and never exceeds the fixed
\* interval of the current phase.
C18_RemainWithinInterval ==
    /\ pomo.status.remain >= 0
    /\ pomo.status.remain <= FullInterval(pomo.status.tag)

\* C18 witness: every variant has been entered by an advance; here a nap at
\* its full interval, while a rest at its full interval is in the record.
C18_Witness ==
    /\ pomo.status = [tag |-> "Napping", remain |-> 900]
    /\ saved # None
    /\ saved[1].status.tag = "Resting"
    /\ saved[1].status.remain = 300

\* C19: the record changes only when the plugin becomes hidden, and a
\* become-visible that follows a become-hidden leaves the session saved at
\* that become-hidden, whatever the keys pressed in between made of it.
C19_KeysWhileHiddenLost ==
    [][/\ (file' # file => last'.ev = "VisibleFalse")
       /\ (last'.ev = "VisibleFalse" => file' = SavePomo(pomo))
       /\ ((last'.ev = "VisibleTrue" /\ saved # None) => pomo' = saved[1])]_vars

\* C19 witness: the plugin became visible from hidden (no timeout was
\* outstanding before) and the load replaced a session that a key press
\* while hidden had made different from the saved one.
C19_Witness ==
    /\ last.ev = "VisibleTrue"
    /\ changed
    /\ pending = 1
    /\ saved # None
    /\ pomo = saved[1]
    /\ pomo.paused

\* C12: while the plugin stays visible and unpaused and the ticks of one
\* second keep being delivered, every phase of the cycle is eventually left
\* and Working(0) is reached again and again.
C12_NoTerminalPhase ==
    /\ \A k \in 1..Len(Cycle) :
         [](Phase(pomo.status) = Cycle[k] => <>(Phase(pomo.status) # Cycle[k]))
    /\ []<>(Phase(pomo.status) = <<"Working", 0>>)

\* C12 witness: a tick of one second has just ended the nap, and the session
\* is back at the start of Working(0).
C12_Witness ==
    /\ last = Event("Timer", TIMEOUT)
    /\ active /\ ~pomo.paused
    /\ changed
    /\ pomo.status = Working(0, WORKING_INTERVAL)

\* The decimal digits.
Digit(n) == <<"0", "1", "2", "3", "4", "5", "6", "7", "8", "9">>[n + 1]

\* MM:SS of a number of seconds below 100 minutes.
MinSec(secs) ==
    LET m == secs \div 60
        r == secs % 60
    IN  Digit(m \div 10) \o Digit(m % 10) \o ":" \o Digit(r \div 10) \o Digit(r % 10)

\* The status text of a session as format_status is described: the phase
\* name, the round + 1 except for Napping, the remaining time as MM:SS, and
\* " [paused]" exactly when paused.
ExpectedStatusText(p) ==
    p.status.tag
      \o (IF p.status.tag = "Napping" THEN ""
          ELSE "(round " \o Digit(p.status.round + 1) \o ")")
      \o ": remaining " \o MinSec(p.status.remain)
      \o (IF p.paused THEN " [paused]" ELSE "")

\* C13: the status printed by render is the phase name, the round + 1 for
\* Working and Resting, the remaining time as zero-padded MM:SS and
\* " [paused]" exactly when paused; Working(0, 90 s) unpaused is printed as
\* "Working(round 1): remaining 01:30".
C13_FormatStatus ==
    screen # <<>>
      => /\ screen[1] = ExpectedStatusText(pomo)
         /\ (pomo = [paused |-> FALSE,
                     status |-> [tag |-> "Working", round |-> 0, remain |-> 90]]
               => screen[1] = "Working(round 1): remaining 01:30")

\* C13 witness: Working(0, 90 s) unpaused has been printed.
C13_Witness ==
    /\ pomo = [paused |-> FALSE,
               status |-> [tag |-> "Working", round |-> 0, remain |-> 90]]
    /\ screen # <<>>
    /\ screen[1] = "Working(round 1): remaining 01:30"

====
